---- MODULE Spec2Model ----
(***************************************************************************)
(* Simple notes app: the data access layer (notesApi: remote REST calls    *)
(* wrapped by an in-memory fallback store) and the App screen controller.  *)
(*                                                                         *)
(* Timestamps are the instants of the JavaScript clock, as integers: the   *)
(* strings Date.prototype.toISOString() produces have a fixed width, so    *)
(* comparing them with localeCompare orders them as the instants do.       *)
(* NoTime is the null timestamp of a normalized note that carries none;    *)
(* the controller's sort reads it as the empty string, which sorts before  *)
(* every ISO string.                                                       *)
(***************************************************************************)
EXTENDS Integers, Sequences, FiniteSets, Bags, TLC

\* ------------------------------------------------------------------ bounds
MaxClock == 1       \* the clock readings are 0..MaxClock
MaxNotes == 2       \* no direct create is called against a store this long
MaxRemoteList == 1  \* longest list a remote GET /notes answers with
MaxStarted == 2     \* handlers that are started in a run of the screen

\* ------------------------------------------------------------- value space
Null == [null |-> TRUE]          \* JavaScript null (a missing note)
Absent == "<undefined>"          \* a payload/record field that is not there
NoId == "<null>"                 \* selectedId === null
NoTime == -1                     \* updatedAt === null
Times == 0..MaxClock

Tokens == {"a", "b"}             \* Math.random().toString(16).slice(2)
RemoteIds == {"1", "2"}          \* ids the remote service assigns
RemoteTimes == {0, 1}            \* instants the remote service stamps
MemIds == {"welcome"} \cup {"mem_" \o k : k \in Tokens}
Ids == MemIds \cup RemoteIds

WelcomeContent == "This is a lightweight notes app."

SeqIds(s) == {s[i].id : i \in 1..Len(s)}
IdsOf(s) == {s[i].id : i \in {j \in 1..Len(s) : s[j] # Null}}
Min(S) == CHOOSE x \in S : \A y \in S : x <= y

\* Non-decreasing sequences of n clock readings, none before lo.
NowSeqs(lo, n) ==
    {ts \in [1..n -> lo..MaxClock] : \A i \in 1..n, j \in 1..n : i <= j => ts[i] <= ts[j]}

\* ---------------------------------------------------------------- sorting
\* String(x).localeCompare(String(y)) on timestamps: negative, zero, positive.
LocaleCompare(x, y) == IF x < y THEN -1 ELSE IF x > y THEN 1 ELSE 0

\* Array.prototype.sort with the comparator (a, b) => compare(key(b), key(a)),
\* keys[i] being the key of s[i]: descending by key, and stable (equal keys
\* keep their order).
StableSortDesc(s, keys) ==
    LET n == Len(s)
        Before(i) == {j \in 1..n :
                        \/ LocaleCompare(keys[j], keys[i]) > 0
                        \/ LocaleCompare(keys[j], keys[i]) = 0 /\ j < i}
    IN  [p \in 1..n |-> s[CHOOSE i \in 1..n : Cardinality(Before(i)) = p - 1]]

\* String(n.updatedAt) of every note of the sequence.
MemKeys(noteSeq) == [i \in 1..Len(noteSeq) |-> noteSeq[i].updatedAt]

\* memSort with the comparator's arguments swapped: oldest first.
MemSortOldestFirst(noteSeq) ==
    StableSortDesc(noteSeq, [i \in 1..Len(noteSeq) |-> 0 - noteSeq[i].updatedAt])

MemSort(noteSeq) == StableSortDesc(noteSeq, MemKeys(noteSeq))

SortedDesc(s) == \A i \in 1..(Len(s) - 1) : s[i].updatedAt >= s[i + 1].updatedAt

\* ------------------------------------------------------- remote responses
\* What fetch gives jsonRequest: a 2xx answer with a body, or a failure.
Outcomes == {"ok", "network", "timeout", "status"}

\* jsonRequest returns the body of a 2xx answer; a rejected or aborted fetch
\* and a non-2xx status leave it by an exception.
JsonRequest(resp) == [threw |-> resp.kind # "ok", value |-> resp.body]

RemoteNotes ==
    [id : RemoteIds, title : {"First"}, content : {"Hello"},
     createdAt : {0}, updatedAt : RemoteTimes]

RemoteLists ==
    {s \in UNION {[1..n -> RemoteNotes] : n \in 0..MaxRemoteList} :
        \A i \in 1..Len(s), j \in 1..Len(s) : i # j => s[i].id # s[j].id}

\* GET /notes answers with a bare array, an {items} envelope, or another shape.
ListBodies ==
    [shape : {"array", "envelope"}, items : RemoteLists]
        \cup {[shape |-> "other", items |-> <<>>]}

Failures == {[kind |-> k, body |-> Null] : k \in Outcomes \ {"ok"}}

ListResponses == {[kind |-> "ok", body |-> b] : b \in ListBodies} \cup Failures

\* POST /notes answers with the stored note: the payload's fields, an id and
\* the service's timestamps.
CreateResponses(payload) ==
    {[kind |-> "ok",
      body |-> [id |-> i, title |-> payload.title, content |-> payload.content,
                createdAt |-> t, updatedAt |-> t]] : i \in RemoteIds, t \in RemoteTimes}
        \cup Failures

\* PUT /notes/:id answers with the note as updated.
UpdateResponses(id, payload) ==
    {[kind |-> "ok",
      body |-> [id |-> id, title |-> payload.title, content |-> payload.content,
                createdAt |-> 0, updatedAt |-> t]] : t \in RemoteTimes}
        \cup Failures

\* DELETE /notes/:id answers 204, which jsonRequest turns into null.
DeleteResponses == {[kind |-> "ok", body |-> Null]} \cup Failures

\* The fallback alone reads Math.random() and the clock: what it draws is drawn
\* only when the attempt failed.
Drawn(resp, S) == IF resp.kind = "ok" THEN {CHOOSE x \in S : TRUE} ELSE S

\* --------------------------------------------------------- the four requests
ListRequestFn(resp) ==
    LET r == JsonRequest(resp)
    IN  IF r.threw THEN r
        ELSE [threw |-> FALSE,
              value |-> IF r.value.shape = "array" THEN r.value.items
                        ELSE IF r.value.shape = "envelope" THEN r.value.items
                        ELSE <<>>]

CreateRequestFn(resp) == JsonRequest(resp)

UpdateRequestFn(resp) == JsonRequest(resp)

DeleteRequestFn(resp) ==
    LET r == JsonRequest(resp)
    IN  IF r.threw THEN r ELSE [threw |-> FALSE, value |-> TRUE]

\* ------------------------------------------------------- the four fallbacks
\* Each gives the store it leaves and the value it returns; none throws.
OrEmpty(v) == IF v = Absent \/ v = "" THEN "" ELSE v           \* v || ""
Nullish(v, d) == IF v = Absent THEN d ELSE v                   \* v ?? d

ListFallback(mem) == [mem |-> mem, value |-> MemSort(mem), threw |-> FALSE]

\* now is what nowIso() returns: its two calls, one after the other, are taken
\* to read the same instant.
CreateFallback(mem, payload, rnd, now) ==
    LET note == [id |-> "mem_" \o rnd,
                 title |-> OrEmpty(payload.title),
                 content |-> OrEmpty(payload.content),
                 createdAt |-> now,
                 updatedAt |-> now]
    IN  [mem |-> MemSort(<<note>> \o mem), value |-> note, threw |-> FALSE]

\* Matching(mem, id)[k] is the position of the k-th note of mem with this id.
Matches(mem, id) == {i \in 1..Len(mem) : mem[i].id = id}
Rank(mem, id, i) == Cardinality({j \in Matches(mem, id) : j <= i})

\* updateNote's fallback writing the payload's fields as they come, the missing
\* ones included.
UpdateFallbackOverwrite(mem, id, payload, ts) ==
    LET upd == [i \in 1..Len(mem) |->
                    IF mem[i].id = id
                    THEN [mem[i] EXCEPT !.title = payload.title,
                                        !.content = payload.content,
                                        !.updatedAt = ts[Rank(mem, id, i)]]
                    ELSE mem[i]]
    IN  [mem |-> upd,
         value |-> IF Matches(upd, id) = {} THEN Null ELSE upd[Min(Matches(upd, id))],
         threw |-> FALSE]

\* updateNote's fallback storing the payload as a new note when no note has
\* the id.
UpdateFallbackUpsert(mem, id, payload, ts) ==
    LET upd == [i \in 1..Len(mem) |->
                    IF mem[i].id = id
                    THEN [mem[i] EXCEPT !.title = Nullish(payload.title, @),
                                        !.content = Nullish(payload.content, @),
                                        !.updatedAt = ts[Rank(mem, id, i)]]
                    ELSE mem[i]]
        new == [id |-> id, title |-> Nullish(payload.title, ""),
                content |-> Nullish(payload.content, ""),
                createdAt |-> 0, updatedAt |-> 0]
    IN  IF Matches(mem, id) = {}
        THEN [mem |-> Append(mem, new), value |-> new, threw |-> FALSE]
        ELSE [mem |-> upd, value |-> upd[Min(Matches(upd, id))], threw |-> FALSE]

\* ts[k] is the clock reading taken for the k-th note with this id.
UpdateFallback(mem, id, payload, ts) ==
    LET upd == [i \in 1..Len(mem) |->
                    IF mem[i].id = id
                    THEN [mem[i] EXCEPT !.title = Nullish(payload.title, @),
                                        !.content = Nullish(payload.content, @),
                                        !.updatedAt = ts[Rank(mem, id, i)]]
                    ELSE mem[i]]
    IN  [mem |-> upd,
         value |-> IF Matches(upd, id) = {} THEN Null ELSE upd[Min(Matches(upd, id))],
         threw |-> FALSE]

DeleteFallback(mem, id) ==
    [mem |-> SelectSeq(mem, LAMBDA n : n.id # id), value |-> TRUE, threw |-> FALSE]

\* ------------------------------------------------------------ withFallback
\* req is what requestFn did, fb what fallbackFn does if it is run on mem.
WithFallbackEager(req, fb, mem) ==
    [value |-> IF req.threw THEN fb.value ELSE req.value,
     mem |-> fb.mem, fellBack |-> TRUE, raised |-> fb.threw]

WithFallback(req, fb, mem) ==
    IF ~req.threw
    THEN [value |-> req.value, mem |-> mem, fellBack |-> FALSE, raised |-> FALSE]
    ELSE [value |-> fb.value, mem |-> fb.mem, fellBack |-> TRUE, raised |-> fb.threw]


\* ------------------------------------------------------------------- state
VARIABLES
    memNotes,      \* notesApi: the in-memory fallback store
    clock,         \* the latest reading of the clock (new Date())
    call,          \* a data-access call made directly, and its bookkeeping
    returned,      \* what that call returned, Null while it is awaited
    prev,          \* the data-access call completed before it
    notes,         \* App: the view list
    selectedId,    \* App: id of the selected note, or NoId
    draftTitle,    \* App: the editor's title field
    draftContent,  \* App: the editor's content field
    isDirty,       \* App: the draft has edits that were not saved
    loading,       \* App: the startup load has not finished
    saving,        \* App: the flag handleNewNote and handleSave share
    deleting,      \* App: the flag of handleDelete
    errorMsg,      \* App: the inline error message, "" when none
    cancelled,     \* App: the load effect's cleanup has run (unmount)
    crashed,       \* App: a render threw and React unmounted the tree
    loadPending,   \* App: load() is awaiting listNotes()
    pending,       \* App: bag of handlers that await their data-access call
    started,       \* how many handlers have been started so far
    last           \* the controller step taken last, and what it was given

dalVars == <<call, returned, prev>>
viewVars == <<notes, selectedId, draftTitle, draftContent, isDirty, loading,
              saving, deleting, errorMsg, cancelled, crashed, loadPending,
              pending, started, last>>
vars == <<memNotes, clock, call, returned, prev, notes, selectedId, draftTitle,
          draftContent, isDirty, loading, saving, deleting, errorMsg,
          cancelled, crashed, loadPending, pending, started, last>>

NoPayload == [title |-> Absent, content |-> Absent]
IdleCall == [pc |-> "idle", op |-> "none", id |-> NoId, payload |-> NoPayload,
             outcome |-> "none", attempts |-> 0, fallbacks |-> 0,
             fellBack |-> FALSE, raised |-> FALSE]
NoPrev == [op |-> "other", fellBack |-> FALSE, value |-> Null]
NoLast == [op |-> "other", fellBack |-> FALSE, value |-> Null]

\* The module's store is built when it loads, the welcome note stamped with
\* the clock of that instant (instant 0).
Init ==
    /\ memNotes = <<[id |-> "welcome", title |-> "Welcome",
                     content |-> WelcomeContent,
                     updatedAt |-> 0, createdAt |-> 0]>>
    /\ clock = 0
    /\ call = IdleCall
    /\ returned = Null
    /\ prev = NoPrev
    /\ notes = <<>>
    /\ selectedId = NoId
    /\ draftTitle = ""
    /\ draftContent = ""
    /\ isDirty = FALSE
    /\ loading = TRUE
    /\ saving = FALSE
    /\ deleting = FALSE
    /\ errorMsg = ""
    /\ cancelled = FALSE
    /\ crashed = FALSE
    /\ loadPending = TRUE
    /\ pending = EmptyBag
    /\ started = 0
    /\ last = NoLast

\* ------------------------------------------- the data access layer, called
\* A caller invokes one of the four exported functions and awaits it.  The
\* call counts its own remote attempts and fallback runs.
CreatePayloads == {[title |-> "Untitled", content |-> ""],
                   [title |-> "", content |-> "text"]}
UpdatePayloads == {[title |-> "X", content |-> Absent],
                   [title |-> Absent, content |-> "text"]}
DalIds == {"welcome", "mem_a", "1"}

DalArgs ==
    {[op |-> "list", id |-> NoId, payload |-> NoPayload]}
        \cup {[op |-> "create", id |-> NoId, payload |-> p] : p \in CreatePayloads}
        \cup {[op |-> "update", id |-> i, payload |-> p] : i \in DalIds, p \in UpdatePayloads}
        \cup {[op |-> "delete", id |-> i, payload |-> NoPayload] : i \in DalIds}

\* What the remote answers to a direct call: one 2xx answer of each shape, and
\* every failure.
DalListResponses ==
    {r \in ListResponses : r.kind = "ok" => Len(r.body.items) = 0}
DalCreateResponses(payload) ==
    {r \in CreateResponses(payload) : r.kind = "ok" => r.body.id = "1" /\ r.body.updatedAt = 0}
DalUpdateResponses(id, payload) ==
    {r \in UpdateResponses(id, payload) : r.kind = "ok" => r.body.updatedAt = 0}

\* withFallback starts requestFn: one remote attempt.
DalCall ==
    /\ call.pc \in {"idle", "done"}
    /\ \E a \in DalArgs :
         /\ a.op = "create" => Len(memNotes) < MaxNotes
         /\ call' = [IdleCall EXCEPT !.pc = "awaiting", !.op = a.op, !.id = a.id,
                                     !.payload = a.payload, !.attempts = 1]
    /\ returned' = Null
    /\ prev' = IF call.op = "create" /\ call.fellBack
                THEN [op |-> "create", fellBack |-> TRUE, value |-> returned]
                ELSE NoPrev
    /\ UNCHANGED <<memNotes, clock>>
    /\ UNCHANGED viewVars

\* The attempt settles and withFallback returns; now is the clock after it.
DalReturn(resp, r, now) ==
    /\ memNotes' = r.mem
    /\ clock' = IF r.fellBack THEN now ELSE clock
    /\ call' = [call EXCEPT !.pc = "done", !.outcome = resp.kind,
                            !.fallbacks = @ + (IF r.fellBack THEN 1 ELSE 0),
                            !.fellBack = r.fellBack, !.raised = r.raised]
    /\ returned' = r.value
    /\ UNCHANGED prev
    /\ UNCHANGED viewVars

DalListSettle ==
    /\ call.pc = "awaiting" /\ call.op = "list"
    /\ \E resp \in DalListResponses :
         DalReturn(resp, WithFallback(ListRequestFn(resp), ListFallback(memNotes), memNotes),
                   clock)

DalCreateSettle ==
    /\ call.pc = "awaiting" /\ call.op = "create"
    /\ \E resp \in DalCreateResponses(call.payload) :
       \E rnd \in Drawn(resp, Tokens), now \in Drawn(resp, clock..MaxClock) :
         DalReturn(resp,
                   WithFallback(CreateRequestFn(resp),
                                CreateFallback(memNotes, call.payload, rnd, now),
                                memNotes),
                   now)

DalUpdateSettle ==
    /\ call.pc = "awaiting" /\ call.op = "update"
    /\ \E resp \in DalUpdateResponses(call.id, call.payload) :
       \E ts \in Drawn(resp, NowSeqs(clock, Cardinality(Matches(memNotes, call.id)))) :
         DalReturn(resp,
                   WithFallback(UpdateRequestFn(resp),
                                UpdateFallback(memNotes, call.id, call.payload, ts),
                                memNotes),
                   IF Len(ts) = 0 THEN clock ELSE ts[Len(ts)])

DalDeleteSettle ==
    /\ call.pc = "awaiting" /\ call.op = "delete"
    /\ \E resp \in DeleteResponses :
         DalReturn(resp,
                   WithFallback(DeleteRequestFn(resp), DeleteFallback(memNotes, call.id),
                                memNotes),
                   clock)

NextDAL ==
    \/ DalCall
    \/ DalListSettle
    \/ DalCreateSettle
    \/ DalUpdateSettle
    \/ DalDeleteSettle

SpecDAL == Init /\ [][NextDAL]_vars

\* ------------------------------------------------------ App: pure helpers
\* normalizeNote: null for a missing note; the id as a string (the ids here are
\* strings already), missing title and content as "", the timestamps as given
\* (NoTime when the record has neither spelling of the field).
NormalizeNote(raw) ==
    IF raw = Null THEN Null
    ELSE [id |-> raw.id,
          title |-> Nullish(raw.title, ""),
          content |-> Nullish(raw.content, ""),
          createdAt |-> raw.createdAt,
          updatedAt |-> raw.updatedAt]

NormalizeAll(raws) == [i \in 1..Len(raws) |-> NormalizeNote(raws[i])]

\* The memo `selected`: the first note of the list with the selected id.
Selected(ns, sel) ==
    IF sel \in SeqIds(ns)
    THEN NormalizeNote(ns[Min({i \in 1..Len(ns) : ns[i].id = sel})])
    ELSE Null

\* The effect keyed on selectedId: it runs after a render in which selectedId
\* changed and resets the draft from the note now selected.
SyncDraftKeepDirty(ns, sel, oldSel, draft) ==
    IF sel = oldSel \/ draft.dirty THEN draft
    ELSE IF Selected(ns, sel) = Null
         THEN [title |-> "", content |-> "", dirty |-> FALSE]
         ELSE [title |-> Selected(ns, sel).title,
               content |-> Selected(ns, sel).content,
               dirty |-> FALSE]

SyncDraft(ns, sel, oldSel, draft) ==
    IF sel = oldSel THEN draft
    ELSE IF Selected(ns, sel) = Null
         THEN [title |-> "", content |-> "", dirty |-> FALSE]
         ELSE [title |-> Selected(ns, sel).title,
               content |-> Selected(ns, sel).content,
               dirty |-> FALSE]

Draft == [title |-> draftTitle, content |-> draftContent, dirty |-> isDirty]

SetDraft(d) ==
    /\ draftTitle' = d.title
    /\ draftContent' = d.content
    /\ isDirty' = d.dirty

CanSave == Selected(notes, selectedId) # Null /\ isDirty /\ ~saving /\ ~loading

\* The component is mounted: state updates still reach it.
MountedForever == TRUE

Mounted == ~cancelled /\ ~crashed

\* handleNewNote's list update.
InsertCreatedNoDedup(prevNotes, created) == <<created>> \o prevNotes

InsertCreated(prevNotes, created) ==
    <<created>> \o SelectSeq(prevNotes, LAMBDA n : n.id # created.id)

\* handleSave's list update: the entries with the id replaced, then the list
\* sorted by String(updatedAt || "") descending.
ViewKeys(noteSeq) == [i \in 1..Len(noteSeq) |-> noteSeq[i].updatedAt]

MapSaved(prevNotes, id, updated) ==
    [i \in 1..Len(prevNotes) |-> IF prevNotes[i].id = id THEN updated ELSE prevNotes[i]]

ReplaceSavedUnsorted(prevNotes, id, updated) == MapSaved(prevNotes, id, updated)

ReplaceSaved(prevNotes, id, updated) ==
    StableSortDesc(MapSaved(prevNotes, id, updated),
                   ViewKeys(MapSaved(prevNotes, id, updated)))

\* handleDelete's list update and its selection update, which reads the list
\* of the render the handler was created in.
RemoveDeleted(prevNotes, id) == SelectSeq(prevNotes, LAMBDA n : n.id # id)

NextSelection(prevSelectedId, id, renderNotes) ==
    IF prevSelectedId # id THEN prevSelectedId
    ELSE LET remaining == SelectSeq(renderNotes, LAMBDA n : n.id # id)
         IN  IF Len(remaining) > 0 THEN remaining[1].id ELSE NoId

\* handleDelete goes on past its two early returns.
DeleteProceedsUnasked(sel, ok) == sel # Null

DeleteProceeds(sel, ok) == sel # Null /\ ok

\* load's finally block: the loading flag it leaves.
LoadFinallySkipped(isCancelled, flag) == flag

LoadFinally(isCancelled, flag) == IF isCancelled THEN flag ELSE FALSE

\* load's choice of selection.
LoadSelection(prevSelectedId, items) ==
    IF Len(items) > 0
    THEN IF prevSelectedId # NoId THEN prevSelectedId ELSE items[1].id
    ELSE NoId

\* --------------------------------------------------- App: handlers in flight
Op(kind, id, title, content, renderNotes) ==
    [op |-> kind, id |-> id, title |-> title, content |-> content, notes |-> renderNotes]

CreatePayload == [title |-> "Untitled", content |-> ""]
EditTitles == {"Groceries"}
EditContents == {"milk"}

PendingOps(kind) == {o \in BagToSet(pending) : o.op = kind}
Await(o) ==
    /\ started < MaxStarted
    /\ pending' = pending (+) SetToBag({o})
    /\ started' = started + 1
Resume(o) == pending' = pending (-) SetToBag({o}) /\ UNCHANGED started
\* What a step leaves in last: for the end of a handler its name, whether the
\* fallback ran and the note it was given; for an answer to window.confirm the
\* answer; for any other step nothing.
Ended(kind, fellBack, value) == last' = [op |-> kind, fellBack |-> fellBack, value |-> value]
Other == last' = NoLast

\* --------------------------------------------------------- App: the handlers
\* The New button (and the empty list's button) is disabled while saving or
\* loading; the floating + button of the narrow layout never is.
ClickNew ==
    /\ Mounted
    /\ \E viaFab \in BOOLEAN : viaFab \/ ~(saving \/ loading)
    /\ errorMsg' = ""
    /\ saving' = TRUE
    /\ Await(Op("create", NoId, CreatePayload.title, CreatePayload.content, <<>>))
    /\ Other
    /\ UNCHANGED <<memNotes, clock, notes, selectedId, draftTitle, draftContent,
                   isDirty, loading, deleting, cancelled, crashed, loadPending>>
    /\ UNCHANGED dalVars

\* createNote settled and handleNewNote goes on after its await.
CreateDone ==
    \E o \in PendingOps("create") :
    \E resp \in CreateResponses(CreatePayload) :
    \E rnd \in Drawn(resp, Tokens), now \in Drawn(resp, clock..MaxClock) :
        LET payload == [title |-> o.title, content |-> o.content]
            r == WithFallback(CreateRequestFn(resp),
                              CreateFallback(memNotes, payload, rnd, now),
                              memNotes)
            created == NormalizeNote(r.value)
            nextNotes == InsertCreated(notes, created)
        IN  /\ memNotes' = r.mem
            /\ clock' = IF r.fellBack THEN now ELSE clock
            /\ Resume(o)
            /\ IF Mounted
               THEN /\ notes' = nextNotes
                    /\ selectedId' = created.id
                    /\ SetDraft(SyncDraft(nextNotes, created.id, selectedId, Draft))
                    /\ saving' = FALSE
                    /\ Ended("createDone", r.fellBack, created)
               ELSE /\ UNCHANGED <<notes, selectedId, draftTitle, draftContent, isDirty, saving>>
                    /\ Ended("createDropped", r.fellBack, created)
            /\ UNCHANGED <<loading, deleting, errorMsg, cancelled, crashed, loadPending>>
            /\ UNCHANGED dalVars

\* Clicking a row of the list, which is shown once loading is over.
HandleSelect ==
    /\ Mounted
    /\ ~loading
    /\ \E id \in SeqIds(notes) :
         /\ selectedId' = id
         /\ SetDraft(SyncDraft(notes, id, selectedId, Draft))
         /\ Other
    /\ UNCHANGED <<memNotes, clock, notes, loading, saving, deleting, errorMsg,
                   cancelled, crashed, loadPending, pending, started>>
    /\ UNCHANGED dalVars

\* Typing in the title field, shown while a note is selected.
EditTitle ==
    /\ Mounted
    /\ Selected(notes, selectedId) # Null
    /\ \E v \in EditTitles :
         /\ draftTitle' = v
         /\ Other
    /\ isDirty' = TRUE
    /\ UNCHANGED <<memNotes, clock, notes, selectedId, draftContent, loading, saving,
                   deleting, errorMsg, cancelled, crashed, loadPending, pending, started>>
    /\ UNCHANGED dalVars

\* Typing in the content field.
EditContent ==
    /\ Mounted
    /\ Selected(notes, selectedId) # Null
    /\ \E v \in EditContents :
         /\ draftContent' = v
         /\ Other
    /\ isDirty' = TRUE
    /\ UNCHANGED <<memNotes, clock, notes, selectedId, draftTitle, loading, saving,
                   deleting, errorMsg, cancelled, crashed, loadPending, pending, started>>
    /\ UNCHANGED dalVars

\* The Save button is enabled by canSave.
ClickSave ==
    /\ Mounted
    /\ CanSave
    /\ errorMsg' = ""
    /\ saving' = TRUE
    /\ Await(Op("save", Selected(notes, selectedId).id, draftTitle, draftContent, <<>>))
    /\ Other
    /\ UNCHANGED <<memNotes, clock, notes, selectedId, draftTitle, draftContent,
                   isDirty, loading, deleting, cancelled, crashed, loadPending>>
    /\ UNCHANGED dalVars

\* updateNote settled and handleSave goes on after its await.  A null result
\* put in the place of a list entry makes the next render throw.
SaveDone ==
    \E o \in PendingOps("save") :
    \E resp \in UpdateResponses(o.id, [title |-> o.title, content |-> o.content]) :
    \E ts \in Drawn(resp, NowSeqs(clock, Cardinality(Matches(memNotes, o.id)))) :
        LET payload == [title |-> o.title, content |-> o.content]
            r == WithFallback(UpdateRequestFn(resp),
                              UpdateFallback(memNotes, o.id, payload, ts),
                              memNotes)
            updated == NormalizeNote(r.value)
            throws == updated = Null /\ o.id \in SeqIds(notes)
        IN  /\ memNotes' = r.mem
            /\ clock' = IF r.fellBack /\ Len(ts) > 0 THEN ts[Len(ts)] ELSE clock
            /\ Resume(o)
            /\ IF Mounted
               THEN /\ notes' = IF throws THEN MapSaved(notes, o.id, updated)
                                ELSE ReplaceSaved(notes, o.id, updated)
                    /\ crashed' = throws
                    /\ isDirty' = FALSE
                    /\ saving' = FALSE
                    /\ Ended(IF throws THEN "saveCrashed" ELSE "saveDone", r.fellBack, updated)
               ELSE /\ UNCHANGED <<notes, crashed, isDirty, saving>>
                    /\ Ended("saveDropped", r.fellBack, updated)
            /\ UNCHANGED <<selectedId, draftTitle, draftContent, loading, deleting,
                           errorMsg, cancelled, loadPending>>
            /\ UNCHANGED dalVars

\* The Delete button, enabled while a note is selected and no delete or load
\* is under way; ok is the answer to window.confirm.
ClickDelete ==
    /\ Mounted
    /\ Selected(notes, selectedId) # Null /\ ~deleting /\ ~loading
    /\ \E ok \in BOOLEAN :
         /\ IF DeleteProceeds(Selected(notes, selectedId), ok)
            THEN /\ errorMsg' = ""
                 /\ deleting' = TRUE
                 /\ Await(Op("delete", Selected(notes, selectedId).id, "", "", notes))
            ELSE UNCHANGED <<errorMsg, deleting, pending, started>>
         /\ Ended(IF ok THEN "deleteConfirmed" ELSE "deleteDeclined", FALSE, Null)
    /\ UNCHANGED <<memNotes, clock, notes, selectedId, draftTitle, draftContent,
                   isDirty, loading, saving, cancelled, crashed, loadPending>>
    /\ UNCHANGED dalVars

\* deleteNote settled and handleDelete goes on after its await.
DeleteDone ==
    \E o \in PendingOps("delete") :
    \E resp \in DeleteResponses :
        LET r == WithFallback(DeleteRequestFn(resp), DeleteFallback(memNotes, o.id), memNotes)
            nextNotes == RemoveDeleted(notes, o.id)
            nextSel == NextSelection(selectedId, o.id, o.notes)
        IN  /\ memNotes' = r.mem
            /\ Resume(o)
            /\ IF Mounted
               THEN /\ notes' = nextNotes
                    /\ selectedId' = nextSel
                    /\ SetDraft(SyncDraft(nextNotes, nextSel, selectedId, Draft))
                    /\ deleting' = FALSE
                    /\ Ended("deleteDone", r.fellBack, Null)
               ELSE /\ UNCHANGED <<notes, selectedId, draftTitle, draftContent, isDirty,
                                   deleting>>
                    /\ Ended("deleteDropped", r.fellBack, Null)
            /\ UNCHANGED <<clock, loading, saving, errorMsg, cancelled, crashed, loadPending>>
            /\ UNCHANGED dalVars

\* listNotes settled and load goes on after its await, unless the effect's
\* cleanup has run.
LoadDone ==
    /\ loadPending
    /\ \E resp \in ListResponses :
        LET r == WithFallback(ListRequestFn(resp), ListFallback(memNotes), memNotes)
            items == SelectSeq(NormalizeAll(r.value), LAMBDA n : n # Null)
            nextSel == LoadSelection(selectedId, items)
        IN  /\ memNotes' = r.mem
            /\ loadPending' = FALSE
            /\ IF Mounted
               THEN /\ notes' = items
                    /\ selectedId' = nextSel
                    /\ SetDraft(SyncDraft(items, nextSel, selectedId, Draft))
                    /\ Ended("loadDone", r.fellBack, Null)
               ELSE /\ UNCHANGED <<notes, selectedId, draftTitle, draftContent, isDirty>>
                    /\ Ended("loadDropped", r.fellBack, Null)
            /\ loading' = LoadFinally(~Mounted, loading)
    /\ UNCHANGED <<clock, saving, deleting, errorMsg, cancelled, crashed, pending, started>>
    /\ UNCHANGED dalVars

\* The component unmounts: the load effect's cleanup sets cancelled.
Teardown ==
    /\ ~cancelled
    /\ cancelled' = TRUE
    /\ Other
    /\ UNCHANGED <<memNotes, clock, notes, selectedId, draftTitle, draftContent,
                   isDirty, loading, saving, deleting, errorMsg, crashed, loadPending,
                   pending, started>>
    /\ UNCHANGED dalVars

Next ==
    \/ LoadDone
    \/ ClickNew
    \/ CreateDone
    \/ HandleSelect
    \/ EditTitle
    \/ EditContent
    \/ ClickSave
    \/ SaveDone
    \/ ClickDelete
    \/ DeleteDone

Spec == Init /\ [][Next]_vars

\* The screen that stays mounted, with the scheduling the runtime gives it:
\* fetch settles or is aborted after DEFAULT_TIMEOUT_MS, and the continuation
\* of load is then run.
SpecLive == Spec /\ WF_vars(LoadDone)

\* ------------------------------------- App: the handlers' catch branches
\* notesApi never rejects: withFallback turns every failure into the fallback's
\* answer.  The handlers are nevertheless written against calls that may
\* reject, and the tests put another module in notesApi's place; these steps
\* are the handlers' catch and finally blocks, taken when the awaited call
\* rejects with an error carrying the message msg.
ErrorMessages == {"", "Request failed"}

\* setError: e?.message || "Something went wrong."
SetErrorSilent(msg) == ""

SetError(msg) == IF msg = "" THEN "Something went wrong." ELSE msg

CreateRaises ==
    \E o \in PendingOps("create"), msg \in ErrorMessages :
        /\ Resume(o)
        /\ IF Mounted
           THEN errorMsg' = SetError(msg) /\ saving' = FALSE
           ELSE UNCHANGED <<errorMsg, saving>>
        /\ Ended("createRaised", FALSE, Null)
        /\ UNCHANGED <<memNotes, clock, notes, selectedId, draftTitle, draftContent,
                       isDirty, loading, deleting, cancelled, crashed, loadPending>>
        /\ UNCHANGED dalVars

SaveRaises ==
    \E o \in PendingOps("save"), msg \in ErrorMessages :
        /\ Resume(o)
        /\ IF Mounted
           THEN errorMsg' = SetError(msg) /\ saving' = FALSE
           ELSE UNCHANGED <<errorMsg, saving>>
        /\ Ended("saveRaised", FALSE, Null)
        /\ UNCHANGED <<memNotes, clock, notes, selectedId, draftTitle, draftContent,
                       isDirty, loading, deleting, cancelled, crashed, loadPending>>
        /\ UNCHANGED dalVars

DeleteRaises ==
    \E o \in PendingOps("delete"), msg \in ErrorMessages :
        /\ Resume(o)
        /\ IF Mounted
           THEN errorMsg' = SetError(msg) /\ deleting' = FALSE
           ELSE UNCHANGED <<errorMsg, deleting>>
        /\ Ended("deleteRaised", FALSE, Null)
        /\ UNCHANGED <<memNotes, clock, notes, selectedId, draftTitle, draftContent,
                       isDirty, loading, saving, cancelled, crashed, loadPending>>
        /\ UNCHANGED dalVars

\* load's catch: e?.message || "Failed to load notes."
LoadRaises ==
    /\ loadPending
    /\ \E msg \in ErrorMessages :
         errorMsg' = IF ~Mounted THEN errorMsg
                     ELSE IF msg = "" THEN "Failed to load notes." ELSE msg
    /\ loadPending' = FALSE
    /\ loading' = LoadFinally(~Mounted, loading)
    /\ Ended("loadRaised", FALSE, Null)
    /\ UNCHANGED <<memNotes, clock, notes, selectedId, draftTitle, draftContent,
                   isDirty, saving, deleting, cancelled, crashed, pending, started>>
    /\ UNCHANGED dalVars

NextRejecting ==
    \/ Next
    \/ CreateRaises
    \/ SaveRaises
    \/ DeleteRaises
    \/ LoadRaises

SpecRejecting == Init /\ [][NextRejecting]_vars

\* The same screen when it can also be unmounted.
NextUnmount == Next \/ Teardown

SpecUnmount == Init /\ [][NextUnmount]_vars

\* ---------------------------------------- properties of the data access layer
\* The step in which the awaited attempt of a direct call settles.
DalSettles == call.pc = "awaiting" /\ call'.pc = "done"

\* C1: a call of list, create, update or delete makes one remote attempt; if
\* the attempt fails (network error, timeout, non-2xx) the call returns what one
\* run of its fallback returns and raises nothing; if it succeeds the fallback
\* is not run and the fallback store stays as it was.
C1_OneAttemptOneFallback ==
    [][DalSettles =>
          /\ call'.attempts = 1
          /\ ~call'.raised
          /\ call'.outcome = "ok" =>
                /\ call'.fallbacks = 0
                /\ ~call'.fellBack
                /\ memNotes' = memNotes
          /\ call'.outcome # "ok" =>
                /\ call'.fallbacks = 1
                /\ call'.fellBack
                /\ call.op = "delete" => returned' = TRUE
                /\ call.op = "create" => returned' \in {memNotes'[i] : i \in 1..Len(memNotes')}
                /\ call.op = "update" =>
                      returned' = IF call.id \in SeqIds(memNotes')
                                    THEN memNotes'[Min(Matches(memNotes', call.id))]
                                    ELSE Null
                /\ call.op = "list" => Len(returned') = Len(memNotes)]_vars

C1_Witness ==
    /\ call.pc = "done" /\ call.op = "update" /\ call.outcome = "timeout"
    /\ call.attempts = 1 /\ call.fallbacks = 1 /\ returned # Null

\* C2: on the fallback path, a create followed at once by a list gives a
\* sequence whose first entry is the created note and in which no other entry
\* has the created note's id.
C2_CreateThenListHasNoteOnceFirst ==
    (call.pc = "done" /\ call.op = "list" /\ call.fellBack /\ prev.op = "create") =>
        /\ Len(returned) >= 1
        /\ returned[1] = prev.value
        /\ Cardinality({i \in 1..Len(returned) : returned[i].id = prev.value.id}) = 1

\* C4: whatever fallback creates, updates and deletes came before, the sequence
\* the fallback list returns has no entry with an updatedAt less than that of a
\* later entry.
C4_FallbackListSortedDesc ==
    (call.pc = "done" /\ call.op = "list" /\ call.fellBack) => SortedDesc(returned)

C4_Witness ==
    /\ call.pc = "done" /\ call.op = "list" /\ call.fellBack
    /\ Len(returned) >= 2
    /\ returned[1].updatedAt > returned[2].updatedAt
    /\ ~SortedDesc(memNotes)

\* C5: a fallback update of an id in the store with a title-only payload sets
\* the title of the notes with that id, keeps their content, id and createdAt,
\* never moves their updatedAt back, and leaves every other note as it was.
C5_TitleOnlyUpdateFrame ==
    [][(/\ DalSettles /\ call.op = "update" /\ call'.fellBack
        /\ call.payload.title # Absent /\ call.payload.content = Absent
        /\ call.id \in SeqIds(memNotes)) =>
          /\ Len(memNotes') = Len(memNotes)
          /\ \A i \in 1..Len(memNotes) :
                IF memNotes[i].id = call.id
                THEN /\ memNotes'[i].title = call.payload.title
                     /\ memNotes'[i].content = memNotes[i].content
                     /\ memNotes'[i].id = memNotes[i].id
                     /\ memNotes'[i].createdAt = memNotes[i].createdAt
                     /\ memNotes'[i].updatedAt >= memNotes[i].updatedAt
                ELSE memNotes'[i] = memNotes[i]]_vars

C5_Witness ==
    /\ call.pc = "done" /\ call.op = "update" /\ call.fellBack
    /\ call.payload.content = Absent
    /\ returned # Null
    /\ returned.title = "X" /\ returned.content = WelcomeContent
    /\ returned.updatedAt > returned.createdAt
    /\ Len(memNotes) >= 2

\* C6: a fallback update or delete of an id that is not in the store raises
\* nothing and leaves the store as it was; the update returns null and the
\* delete returns true.
C6_AbsentIdIsNoOp ==
    [][(/\ DalSettles /\ call.op \in {"update", "delete"} /\ call'.fellBack
        /\ call.id \notin SeqIds(memNotes)) =>
          /\ ~call'.raised
          /\ memNotes' = memNotes
          /\ call.op = "update" => returned' = Null
          /\ call.op = "delete" => returned' = TRUE]_vars

C6_Witness ==
    /\ call.pc = "done" /\ call.op = "update" /\ call.fellBack
    /\ call.id \notin SeqIds(memNotes)
    /\ returned = Null /\ ~call.raised
    /\ Len(memNotes) >= 1

\* C7: no two notes of the fallback store have the same id.
C7_StoreIdsUnique ==
    \A i \in 1..Len(memNotes), j \in 1..Len(memNotes) :
        i # j => memNotes[i].id # memNotes[j].id

\* --------------------------------------------- properties of the controller
\* How often x occurs in the sequence sq.
Count(sq, x) == Cardinality({i \in 1..Len(sq) : sq[i] = x})
WithId(sq, id) == {i \in 1..Len(sq) : sq[i].id = id}
Entries(sq) == {sq[i] : i \in 1..Len(sq)}

\* The step in which handleSave started as o ends with a note from updateNote,
\* and the one in which handleDelete started as o ends.
SaveEnds(o) ==
    /\ o \in PendingOps("save")
    /\ pending' = pending (-) SetToBag({o})
    /\ last'.op = "saveDone"
    /\ last'.value # Null

DeleteEnds(o) ==
    /\ o \in PendingOps("delete")
    /\ pending' = pending (-) SetToBag({o})
    /\ last'.op = "deleteDone"

\* C3: when handleNewNote ends with the note createNote returned, that note,
\* titled "Untitled" with empty content, is the first entry of the view list,
\* is the only entry with its id, and is selected.
C3_CreatedFirstOnceSelected ==
    last.op = "createDone" =>
        /\ Len(notes) >= 1
        /\ notes[1] = last.value
        /\ last.value.title = "Untitled"
        /\ last.value.content = ""
        /\ Cardinality(WithId(notes, last.value.id)) = 1
        /\ selectedId = last.value.id

C3_Witness ==
    /\ last.op = "createDone"
    /\ Len(notes) >= 2
    /\ notes[1] = last.value
    /\ selectedId = notes[1].id
    /\ notes[1].updatedAt < notes[2].updatedAt

\* What C8 says of the list and the dirty flag when handleSave ends with the
\* note updateNote returned: the entries with the saved id are that note, the
\* other entries are the ones there were, the list is sorted by updatedAt
\* descending, the dirty flag is clear, and on the fallback path the note has
\* the title and content of the draft that was saved.
SavedIntoList(o) ==
    /\ Len(notes') = Len(notes)
    /\ Cardinality(WithId(notes', o.id)) = Cardinality(WithId(notes, o.id))
    /\ \A i \in WithId(notes', o.id) : notes'[i] = last'.value
    /\ \A x \in Entries(notes) : x.id # o.id => Count(notes', x) = Count(notes, x)
    /\ SortedDesc(notes')
    /\ isDirty' = FALSE
    /\ last'.fellBack => last'.value.title = o.title /\ last'.value.content = o.content

\* C8 as stated: after a successful save of the selected note the list entry
\* with its id is the note update returned, with the saved draft's title and
\* content on the fallback path and an updatedAt that changed; the other
\* entries are unchanged, the list is sorted by updatedAt descending and the
\* dirty flag is clear.  (The change of updatedAt is asked on the fallback
\* path only, where the code sets it.)
C8_SaveReplacesWithChangedUpdatedAt ==
    [][\A o \in PendingOps("save") : SaveEnds(o) =>
          /\ SavedIntoList(o)
          /\ last'.fellBack =>
                \A i \in WithId(notes, o.id) : last'.value.updatedAt # notes[i].updatedAt]_vars

\* C8 as amended: the same, with the updatedAt of the fallback path being a
\* reading of the clock taken during the update, which can be the value the
\* note had.
C8_SaveReplacesAndSorts ==
    [][\A o \in PendingOps("save") : SaveEnds(o) =>
          /\ SavedIntoList(o)
          /\ last'.fellBack =>
                /\ clock <= last'.value.updatedAt
                /\ last'.value.updatedAt <= clock']_vars

C8_Witness ==
    /\ last.op = "saveDone" /\ last.fellBack
    /\ last.value.title = "Groceries"
    /\ Len(notes) >= 2
    /\ notes[1] = last.value
    /\ notes[1].updatedAt > notes[2].updatedAt
    /\ selectedId = last.value.id
    /\ ~isDirty

\* C9: when a confirmed delete ends, the deleted note is not in the view list;
\* if it was still the selected one the selection is then a note of the list,
\* or none when the list is empty; a different selection is kept.
C9_DeleteMovesSelection ==
    [][\A o \in PendingOps("delete") : DeleteEnds(o) =>
          /\ o.id \notin SeqIds(notes')
          /\ selectedId = o.id =>
                IF Len(notes') = 0 THEN selectedId' = NoId
                ELSE selectedId' \in SeqIds(notes')
          /\ selectedId # o.id => selectedId' = selectedId]_vars

\* C10: when the user declines the confirmation no delete is handed to the
\* data access layer and the view list, the selection, the draft, the dirty
\* flag and the deleting flag stay as they were.
C10_DeclinedDeleteIsNoOp ==
    [][last'.op = "deleteDeclined" =>
          /\ pending' = pending
          /\ memNotes' = memNotes
          /\ notes' = notes
          /\ selectedId' = selectedId
          /\ draftTitle' = draftTitle
          /\ draftContent' = draftContent
          /\ isDirty' = isDirty
          /\ deleting' = deleting]_vars

C10_Witness ==
    /\ last.op = "deleteDeclined"
    /\ selectedId \in SeqIds(notes)
    /\ isDirty /\ draftTitle = "Groceries"
    /\ ~deleting
    /\ PendingOps("delete") = {}

\* C11: when handleNewNote ends with the created note, the editor's draft has
\* an empty title and an empty content and is not dirty.
C11_DraftEmptyAfterCreate ==
    last.op = "createDone" =>
        /\ draftTitle = ""
        /\ draftContent = ""
        /\ ~isDirty

\* C12: in every state of the screen the view list is sorted by updatedAt
\* descending: no entry has an updatedAt greater than that of an entry before it.
C12_ViewListSortedDesc == ~crashed => SortedDesc(notes)

\* How many handlers of the kind are awaiting their data-access call.
InFlight(kind) == BagCardinality([o \in PendingOps(kind) |-> CopiesIn(o, pending)])

\* C13: at most one create, at most one save and at most one delete started by
\* the screen is in flight at any time.
C13_OneInFlightPerKind ==
    /\ InFlight("create") <= 1
    /\ InFlight("save") <= 1
    /\ InFlight("delete") <= 1

\* The step in which handleSave starts: one more save awaits updateNote.
SaveStarts ==
    \E o \in BagToSet(pending') : o.op = "save" /\ pending' = pending (+) SetToBag({o})

\* C14: a save starts only where a note is selected, the draft is dirty and no
\* save and no startup load is in flight; and the saving flag is set for as
\* long as a save is outstanding.
C14_SaveStartsOnlyWhenIdle ==
    [][/\ SaveStarts =>
            /\ Selected(notes, selectedId) # Null
            /\ isDirty
            /\ InFlight("save") = 0
            /\ ~loadPending
       /\ InFlight("save")' > 0 => saving']_vars

C16_LateLoadChangesNothing ==
    [][(loadPending /\ ~loadPending' /\ cancelled) =>
          /\ notes' = notes
          /\ selectedId' = selectedId
          /\ errorMsg' = errorMsg
          /\ loading' = loading]_vars

C16_Witness ==
    /\ last.op = "loadDropped"
    /\ cancelled /\ ~crashed
    /\ ~loadPending
    /\ loading
    /\ Len(notes) >= 1 /\ selectedId = notes[1].id

\* C17: while the screen stays mounted the loading flag, set at startup, is
\* eventually cleared, and once cleared it is never set again.
C17_LoadingEventuallyClearedForGood ==
    /\ <>(~loading)
    /\ [][~loading => ~loading']_vars

C17_Witness ==
    /\ ~loading /\ ~loadPending
    /\ last.op = "loadDone" /\ last.fellBack
    /\ Len(notes) >= 2

\* A step that leaves the view list, the selection, the draft and the dirty flag.
ViewKept ==
    /\ notes' = notes
    /\ selectedId' = selectedId
    /\ draftTitle' = draftTitle
    /\ draftContent' = draftContent
    /\ isDirty' = isDirty

\* C18: when a create, save or delete of the screen ends because the awaited
\* call rejected, an error message is shown, the saving or deleting flag is
\* cleared, and the view list, the selection, the draft and the dirty flag are
\* what they were: neither the start of the operation nor its failure changes
\* them.
C18_RaiseSurfacesErrorOnly ==
    [][/\ (Mounted /\ last'.op \in {"createRaised", "saveRaised", "deleteRaised"}) =>
            /\ errorMsg' # ""
            /\ last'.op \in {"createRaised", "saveRaised"} => ~saving'
            /\ last'.op = "deleteRaised" => ~deleting'
            /\ ViewKept
       /\ BagCardinality(pending') > BagCardinality(pending) => ViewKept]_vars

C18_Witness ==
    /\ last.op = "saveRaised"
    /\ errorMsg = "Something went wrong."
    /\ ~saving
    /\ isDirty /\ draftTitle = "Groceries"
    /\ selectedId \in SeqIds(notes)
    /\ Selected(notes, selectedId).title # "Groceries"

\* C19: whatever calls the remote service answered and whatever calls it failed,
\* every entry of the view list is a note: no save puts null in an entry's place.
C19_ViewEntriesAreNotes == \A i \in 1..Len(notes) : notes[i] # Null

\* C20: in every state in which a note is selected and the dirty flag is clear,
\* the draft's title and content are those of the selected note in the view list.
C20_CleanDraftMatchesSelected ==
    (~crashed /\ Selected(notes, selectedId) # Null /\ ~isDirty) =>
        /\ draftTitle = Selected(notes, selectedId).title
        /\ draftContent = Selected(notes, selectedId).content

\* C21: in every state of the screen that still renders, whatever the order in
\* which the startup load, creates, selections, saves and deletes complete, the
\* selected id is none or the id of a note that is in the view list.
C21_SelectedIsInViewList ==
    ~crashed => (selectedId = NoId \/ selectedId \in SeqIds(notes))

====
